---- MODULE Spec2Model ----
(***************************************************************************)
(* Model of the interactive debugging agent of ai_support_agent.py:        *)
(* the permission gate (ask_user_permission), the command runner           *)
(* (execute_terminal_command), the crew's task list and the step loop of   *)
(* AIDebugAgent.debug_issue.  The external reasoning service behind        *)
(* crew.kickoff() is an opaque collaborator: it may call the terminal tool *)
(* with any command string and it either returns a text or raises.         *)
(* Spec follows one session on a constructed agent, GateSpec the gate      *)
(* alone, LiveSpec the sessions nobody cancels, and ProcessSpec a whole    *)
(* process: constructions, example_usage.main and repeated sessions.       *)
(***************************************************************************)
EXTENDS Integers, Sequences, FiniteSets, TLC

\* ---------------------------------------------------------------- bounds
MaxSteps == 2        \* longest step list of an issue type
MaxBadInputs == 1    \* unaccepted answers typed during one session
MaxToolCalls == 1    \* terminal_tool calls made by the service in one session
MaxLines == 2        \* lines a launched command writes
MaxAgents == 2       \* AIDebugAgent instances constructed in one process

\* ------------------------------------------------------- knowledge base
IssueTypes == {"disk_full", "high_cpu_usage"}

\* DebugStep: the four fields of one step of the knowledge base.  The
\* remediation mapping is a JSON object, kept as its ordered list of
\* <<option name, option description>> pairs.
DebugStep ==
    { [command |-> "df -h", description |-> "Check disk usage",
       expected_output |-> "Usage below 90%",
       remediation |-> << <<"clean_tmp", "Remove temporary files">> >>],
      [command |-> "top -bn1", description |-> "Check CPU load",
       expected_output |-> "Load below 80%",
       remediation |-> << <<"kill_process", "Stop the busiest process">>,
                          <<"renice", "Lower its priority">> >>] }

RECURSIVE SeqsUpTo(_, _)
SeqsUpTo(S, n) ==
    IF n = 0 THEN { <<>> }
    ELSE LET shorter == SeqsUpTo(S, n - 1)
         IN  shorter \cup { Append(s, x) : s \in shorter, x \in S }

\* The first step of an issue type's list.
FirstCommand(T) == IF T = "disk_full" THEN "df -h" ELSE "top -bn1"

\* The step lists considered for issue type T: every list of at most
\* MaxSteps steps that is empty or starts with the type's first step, and
\* in which no step is listed twice in a row.
StepLists(T) ==
    { l \in SeqsUpTo(DebugStep, MaxSteps) :
         /\ l # << >> => l[1].command = FirstCommand(T)
         /\ \A k \in 1..(Len(l) - 1) : l[k] # l[k + 1] }

\* _load_knowledge_base: json.load gives a dict from issue type to a list
\* of steps; any subset of the issue types may be a key.  A knowledge base
\* with both keys has one step for each.
KnowledgeBases ==
    { kb \in UNION { [D -> SeqsUpTo(DebugStep, MaxSteps)] : D \in SUBSET IssueTypes } :
         /\ \A T \in DOMAIN kb : kb[T] \in StepLists(T)
         /\ DOMAIN kb = IssueTypes => \A T \in IssueTypes : Len(kb[T]) = 1 }

\* ------------------------------------------------------------- console
\* A line typed at input(): a sequence of characters.
Inputs ==
    { <<"y">>, <<"Y">>, <<"y", "e", "s">>, <<"Y", "E", "S">>, <<"Y", "e", "S">>,
      <<"n">>, <<"N">>, <<"n", "o">>, <<"N", "O">>, <<"N", "o">>,
      <<>>, <<"y", "e">>, <<"o", "k">>, <<"y", "e", "s", " ">>, <<"n", "o", "n">> }

\* str.lower() on one character
LowerChar(c) ==
    CASE c = "Y" -> "y" [] c = "E" -> "e" [] c = "S" -> "s"
      [] c = "N" -> "n" [] c = "O" -> "o" [] c = "K" -> "k"
      [] OTHER -> c

\* str.lower()
Lower(s) == [k \in 1..Len(s) |-> LowerChar(s[k])]

ErrorAction == "Continue despite error?"
ContinueAction == "Continue to next step?"

\* one console or collaborator event; every event has the same five fields
\* (lines: how many console lines a log call produced, 0 for other events)
Event(e, k, m, v) == [ev |-> e, step |-> k, msg |-> m, val |-> v, lines |-> 0]
\* input(f"\nShould I proceed with: {action}? (yes/no): ")
Prompt(k, action) == Event("input", k, "Should I proceed with: ", action)
\* print("Please answer with 'yes' or 'no'")
Guidance(k) == Event("print", k, "Please answer with 'yes' or 'no'", "")

VARIABLES
    handlers,        \* handlers attached to logging.getLogger('AIDebugAgent')
    main_pc,         \* position of example_usage.main ("" when it is not the caller)
    knowledge_base,  \* self.knowledge_base
    issue_type,      \* argument of debug_issue ("" before the call)
    pc,              \* position of debug_issue
    i,               \* index of the step the for loop is at (0: none)
    action,          \* argument of the running ask_user_permission ("" : none)
    response,        \* the line input() returned, as typed; followed only
                     \* where the gate is examined alone, <<>> elsewhere
    crew_tasks,      \* self.crew.tasks
    trace,           \* log lines, prompts, gate returns, kickoffs, tool calls
    badInputs,       \* unaccepted answers typed so far
    toolCalls,       \* terminal_tool calls made so far
    runner           \* the running execute_terminal_command, or NoRunner

vars == <<handlers, main_pc, knowledge_base, issue_type, pc, i, action, response, crew_tasks,
          trace, badInputs, toolCalls, runner>>

\* execute_terminal_command's frame: the command, the child process (what
\* it has yet to write, what is in the pipe, whether the pipe's write end
\* is closed, whether it has exited and with which code), the list output,
\* the lines printed, the exception e caught by line 50 ("" when none) and
\* the returned string once it has returned.
Runner(st, c, w, p, cl, ex, rc, out, ech, e, res) ==
    [state |-> st, command |-> c, toWrite |-> w, pipe |-> p, closed |-> cl,
     exited |-> ex, returncode |-> rc, output |-> out, echoed |-> ech,
     e |-> e, result |-> res]

NoRunner == Runner("none", "", <<>>, <<>>, FALSE, FALSE, 0, <<>>, <<>>, "", <<>>)

\* Logger.callHandlers: the record of a log call is handed to every handler
\* attached to the logger, and each StreamHandler writes one console line.
callHandlers(record) == [record EXCEPT !.lines = handlers]

\* logger.error / logger.info
LogError(k, m, v) == callHandlers(Event("error", k, m, v))
LogInfo(k, m, v) == callHandlers(Event("info", k, m, v))

\* One AIDebugAgent has been constructed by a caller other than main.
Init ==
    /\ handlers = 1
    /\ main_pc = ""
    /\ knowledge_base \in KnowledgeBases
    /\ issue_type = ""
    /\ pc = "Idle"
    /\ i = 0
    /\ action = ""
    /\ response = <<>>
    /\ crew_tasks = <<>>     \* Crew(tasks=[])
    /\ trace = <<>>
    /\ badInputs = 0
    /\ toolCalls = 0
    /\ runner = NoRunner

\* debug_steps = self.knowledge_base[issue_type]
debug_steps == knowledge_base[issue_type]

\* main without its except KeyboardInterrupt clause: except Exception does
\* not catch a KeyboardInterrupt, which leaves main.
main_except_NoInterruptClause(e, text) ==
    IF e = "KeyboardInterrupt"
    THEN [pc |-> "uncaught", out |-> Event("traceback", i, e, text)]
    ELSE [pc |-> "except Exception",
          out |-> Event("print", i, "An error occurred: ", text)]

\* The except clauses of example_usage.main for the exception e, of text
\* str(e), that left debug_issue: the clause entered and the line printed.
main_except(e, text) ==
    IF e = "KeyboardInterrupt"
    THEN [pc |-> "except KeyboardInterrupt",
          out |-> Event("print", i, "\nDebugging session interrupted by user", "")]
    ELSE [pc |-> "except Exception",
          out |-> Event("print", i, "An error occurred: ", text)]

\* The exception e leaves debug_issue, which has no handler for it: it
\* reaches the caller, and when the caller is main, main's except clauses.
Raise(e, text) ==
    /\ pc' = IF e = "KeyboardInterrupt" THEN "Interrupted" ELSE "Failed"
    /\ action' = ""
    /\ IF main_pc = "try"
       THEN /\ main_pc' = main_except(e, text).pc
            /\ trace' = trace \o << Event("raise", i, e, ""),
                                    main_except(e, text).out >>
       ELSE /\ main_pc' = main_pc
            /\ trace' = Append(trace, Event("raise", i, e, ""))

\* The for loop taking the steps from the end of the list.
ForLoop_Reversed(tr, steps, k) ==
    IF k > Len(steps)
    THEN /\ pc' = "Complete"
         /\ i' = i
         /\ action' = ""
         /\ trace' = tr
    ELSE /\ pc' = "AwaitingStepPermission"
         /\ i' = k
         /\ action' = steps[Len(steps) + 1 - k].description
         /\ trace' = tr \o << LogInfo(k, "Step: ", steps[Len(steps) + 1 - k].description),
                              Prompt(k, steps[Len(steps) + 1 - k].description) >>

\* Head of the for loop over steps at index k, continuing the events tr:
\* either the list is exhausted and debug_issue returns, or step k is
\* logged and its permission prompt is printed.
ForLoop(tr, steps, k) ==
    IF k > Len(steps)
    THEN /\ pc' = "Complete"
         /\ i' = i
         /\ action' = ""
         /\ trace' = tr
    ELSE /\ pc' = "AwaitingStepPermission"
         /\ i' = k
         /\ action' = steps[k].description
         /\ trace' = tr \o << LogInfo(k, "Step: ", steps[k].description),
                              Prompt(k, steps[k].description) >>

\* debug_issue without the return of line 138: the lookup of line 140 raises.
debug_issue_NoReturn(T) ==
    /\ pc = "Idle"
    /\ main_pc = "try" => T = "high_cpu_usage"
    /\ issue_type' = T
    /\ UNCHANGED <<handlers, main_pc, knowledge_base, response, crew_tasks, badInputs,
                   toolCalls, runner>>
    /\ IF T \notin DOMAIN knowledge_base
       THEN /\ pc' = "Failed"
            /\ trace' = trace \o << LogError(0, "Unknown issue type: ", T),
                                    Event("raise", 0, "KeyError", T) >>
            /\ UNCHANGED <<i, action>>
       ELSE ForLoop(trace, knowledge_base[T], 1)

\* debug_issue(issue_type), up to its first blocking call
debug_issue(T) ==
    /\ pc = "Idle"
    /\ main_pc = "try" => T = "high_cpu_usage"   \* example_usage.py line 11
    /\ issue_type' = T
    /\ UNCHANGED <<handlers, main_pc, knowledge_base, response, crew_tasks, badInputs, toolCalls, runner>>
    /\ IF T \notin DOMAIN knowledge_base
       THEN /\ pc' = "Complete"
            /\ trace' = Append(trace, LogError(0, "Unknown issue type: ", T))
            /\ UNCHANGED <<i, action>>
       ELSE ForLoop(trace, knowledge_base[T], 1)

\* ------------------------------------------------------ permission gate
\* ask_user_permission comparing with tokens lower() never yields.
ask_user_permission_NeverMatches(line) ==
    LET lowered == Lower(line)
    IN  IF lowered \in { <<"Y", "E", "S">>, <<"Y">> } THEN "True"
        ELSE IF lowered \in { <<"N", "O">>, <<"N">> } THEN "False"
        ELSE "again"

\* ask_user_permission without .lower()
ask_user_permission_NoLower(line) ==
    IF line \in { <<"y", "e", "s">>, <<"y">> } THEN "True"
    ELSE IF line \in { <<"n", "o">>, <<"n">> } THEN "False"
    ELSE "again"

\* One iteration of the while loop of ask_user_permission on the typed
\* line: "True" and "False" are its return values, "again" the fall-through
\* to the guidance message and the next input().
ask_user_permission(line) ==
    LET lowered == Lower(line)
    IN  IF lowered \in { <<"y", "e", "s">>, <<"y">> } THEN "True"
        ELSE IF lowered \in { <<"n", "o">>, <<"n">> } THEN "False"
        ELSE "again"

Returned(k, act, v) == Event("return", k, act, v)

GatePcs == {"AwaitingStepPermission", "AwaitingErrorPermission",
            "AwaitingContinuePermission"}

\* The unaccepted line: print the guidance and call input() again.
Reprompt(line) ==
    /\ ask_user_permission(line) = "again"
    /\ badInputs < MaxBadInputs
    /\ badInputs' = badInputs + 1
    /\ trace' = trace \o << Guidance(i), Prompt(i, action) >>
    /\ UNCHANGED <<handlers, main_pc, knowledge_base, issue_type, pc, i, action, crew_tasks,
                   toolCalls, runner>>

\* json.dumps(step['remediation'], indent=2): the braces and, between them,
\* the object's members in their order, each a "name": "description" line.
JsonDumps(remediation) ==
    << <<"{">> >>
    \o [k \in 1..Len(remediation) |->
           <<"\"", remediation[k][1], "\": \"", remediation[k][2], "\"">>]
    \o << <<"}">> >>

\* Task(description=..., expected_output=..., agent=...); a description is
\* the pieces of its f-string and the JSON text interpolated at its end.
Task(text, json, e, a) ==
    [description |-> [text |-> text, json |-> json],
     expected_output |-> e, agent |-> a]

execute_task(step) ==
    Task(<<"Execute command: ", step.command>>, <<>>,
         "Command execution output", "Executor")

analyze_task(step) ==
    Task(<<"Analyze output for: ", step.description,
           "\nExpected output: ", step.expected_output,
           "\nPossible issues: ">>, JsonDumps(step.remediation),
         "Analysis of system state and identified issues", "Analyzer")

remediate_task(step) ==
    Task(<<"Based on the analysis, implement the most appropriate fix from these options:\n">>,
         JsonDumps(step.remediation),
         "Implemented fix and its results", "Remediator")

\* Line 147 as break instead of continue.
StepDeclined_Break(line) ==
    /\ ask_user_permission(line) = "False"
    /\ response' = <<>>
    /\ pc' = "Aborted"
    /\ action' = ""
    /\ trace' = trace \o << Returned(i, action, "False"),
                            LogInfo(i, "User chose to skip this step", "") >>
    /\ UNCHANGED <<handlers, main_pc, knowledge_base, issue_type, i, crew_tasks, badInputs,
                   toolCalls, runner>>

\* The controller running the step's command itself before it asks.
StepDeclined_RunsCommand(line) ==
    /\ ask_user_permission(line) = "False"
    /\ response' = <<>>
    /\ ForLoop(trace \o << Event("exec", i, "terminal_command", ""),
                           Returned(i, action, "False"),
                           LogInfo(i, "User chose to skip this step", "") >>,
               debug_steps, i + 1)
    /\ runner' = Runner("returned", debug_steps[i].command, <<>>, <<>>, TRUE,
                        TRUE, 0, <<>>, <<>>, "", <<>>)
    /\ UNCHANGED <<handlers, main_pc, knowledge_base, issue_type, crew_tasks,
                   badInputs, toolCalls>>

\* Line 145 answered no: "User chose to skip this step"; continue.
StepDeclined(line) ==
    /\ ask_user_permission(line) = "False"
    /\ response' = <<>>
    /\ ForLoop(trace \o << Returned(i, action, "False"),
                           LogInfo(i, "User chose to skip this step", "") >>,
               debug_steps, i + 1)
    /\ UNCHANGED <<handlers, main_pc, knowledge_base, issue_type, crew_tasks, badInputs,
                   toolCalls, runner>>

\* Line 147 missing: the declined step is logged as skipped and run.
StepGate_NoContinue(line) ==
    /\ pc = "AwaitingStepPermission"
    /\ \/ Reprompt(line) /\ response' = <<>>
       \/ /\ ask_user_permission(line) \in {"True", "False"}
                /\ response' = <<>>
          /\ crew_tasks' = << execute_task(debug_steps[i]),
                              analyze_task(debug_steps[i]),
                              remediate_task(debug_steps[i]) >>
          /\ trace' = trace
                \o << Returned(i, action, ask_user_permission(line)) >>
                \o (IF ask_user_permission(line) = "False"
                    THEN << LogInfo(i, "User chose to skip this step", "") >>
                    ELSE << >>)
                \o << Event("kickoff", i, "", "") >>
          /\ pc' = "Running"
          /\ action' = ""
          /\ UNCHANGED <<handlers, main_pc, knowledge_base, issue_type, i, badInputs, toolCalls, runner>>

\* Line 176 as self.crew.tasks.extend([...]): the batch grows with each step.
StepAccepted_Appends(line) ==
    /\ ask_user_permission(line) = "True"
    /\ response' = <<>>
    /\ crew_tasks' = crew_tasks \o << execute_task(debug_steps[i]),
                                       analyze_task(debug_steps[i]),
                                       remediate_task(debug_steps[i]) >>
    /\ trace' = trace \o << Returned(i, action, "True"),
                            Event("kickoff", i, "", "") >>
    /\ pc' = "Running"
    /\ action' = ""
    /\ UNCHANGED <<handlers, main_pc, knowledge_base, issue_type, i, badInputs,
                   toolCalls, runner>>

\* Line 145 answered yes: lines 150-180, the three tasks replace
\* self.crew.tasks and self.crew.kickoff() is entered.
StepAccepted(line) ==
    /\ ask_user_permission(line) = "True"
    /\ response' = <<>>
    /\ crew_tasks' = << execute_task(debug_steps[i]),
                        analyze_task(debug_steps[i]),
                        remediate_task(debug_steps[i]) >>
    /\ trace' = trace \o << Returned(i, action, "True"),
                            Event("kickoff", i, "", "") >>
    /\ pc' = "Running"
    /\ action' = ""
    /\ UNCHANGED <<handlers, main_pc, knowledge_base, issue_type, i, badInputs, toolCalls, runner>>

\* A line typed at the gate of line 145.
StepGate(line) ==
    /\ pc = "AwaitingStepPermission"
    /\ \/ Reprompt(line) /\ response' = <<>>
       \/ StepDeclined(line)
       \/ StepAccepted(line)

\* Line 185 missing: the declined error gate falls through to line 187.
ErrorDeclined_NoBreak(line) ==
    /\ ask_user_permission(line) = "False"
    /\ response' = <<>>
    /\ pc' = "AwaitingContinuePermission"
    /\ action' = ContinueAction
    /\ trace' = trace \o << Returned(i, action, "False"),
                            Prompt(i, ContinueAction) >>
    /\ UNCHANGED <<handlers, main_pc, knowledge_base, issue_type, i, crew_tasks, badInputs,
                   toolCalls, runner>>

\* Line 184 answered no: break.
ErrorDeclined(line) ==
    /\ ask_user_permission(line) = "False"
    /\ response' = <<>>
    /\ pc' = "Aborted"
    /\ action' = ""
    /\ trace' = Append(trace, Returned(i, action, "False"))
    /\ UNCHANGED <<handlers, main_pc, knowledge_base, issue_type, i, crew_tasks, badInputs,
                   toolCalls, runner>>

\* Line 184 answered yes: the try statement is left and line 187 asks.
ErrorAccepted(line) ==
    /\ ask_user_permission(line) = "True"
    /\ response' = <<>>
    /\ pc' = "AwaitingContinuePermission"
    /\ action' = ContinueAction
    /\ trace' = trace \o << Returned(i, action, "True"),
                            Prompt(i, ContinueAction) >>
    /\ UNCHANGED <<handlers, main_pc, knowledge_base, issue_type, i, crew_tasks, badInputs,
                   toolCalls, runner>>

\* A line typed at the gate of line 184.
ErrorGate(line) ==
    /\ pc = "AwaitingErrorPermission"
    /\ \/ Reprompt(line) /\ response' = <<>>
       \/ ErrorDeclined(line)
       \/ ErrorAccepted(line)

\* Stopping also empties the list the loop was iterating (debug_steps.clear()).
ContinueDeclined_ClearsSteps(line) ==
    /\ ask_user_permission(line) = "False"
    /\ response' = <<>>
    /\ pc' = "Aborted"
    /\ action' = ""
    /\ trace' = trace \o << Returned(i, action, "False"),
                            LogInfo(i, "User chose to stop debugging", "") >>
    /\ knowledge_base' = [knowledge_base EXCEPT ![issue_type] = << >>]
    /\ UNCHANGED <<handlers, main_pc, issue_type, i, crew_tasks, badInputs,
                   toolCalls, runner>>

\* Line 187 answered no: "User chose to stop debugging"; break.
ContinueDeclined(line) ==
    /\ ask_user_permission(line) = "False"
    /\ response' = <<>>
    /\ pc' = "Aborted"
    /\ action' = ""
    /\ trace' = trace \o << Returned(i, action, "False"),
                            LogInfo(i, "User chose to stop debugging", "") >>
    /\ UNCHANGED <<handlers, main_pc, knowledge_base, issue_type, i, crew_tasks, badInputs,
                   toolCalls, runner>>

\* Line 187 answered yes: the body ends and the for loop takes the next step.
ContinueAccepted(line) ==
    /\ ask_user_permission(line) = "True"
    /\ response' = <<>>
    /\ ForLoop(Append(trace, Returned(i, action, "True")), debug_steps, i + 1)
    /\ UNCHANGED <<handlers, main_pc, knowledge_base, issue_type, crew_tasks, badInputs,
                   toolCalls, runner>>

\* A line typed at the gate of line 187.
ContinueGate(line) ==
    /\ pc = "AwaitingContinuePermission"
    /\ \/ Reprompt(line) /\ response' = <<>>
       \/ ContinueDeclined(line)
       \/ ContinueAccepted(line)

\* input() raises EOFError when the console is closed: no handler in
\* ask_user_permission or debug_issue catches it at any of the three gates.
InputEOF ==
    /\ pc \in GatePcs
    /\ Raise("EOFError", "EOF when reading a line")
    /\ UNCHANGED <<handlers, knowledge_base, issue_type, i, response, crew_tasks,
                   badInputs, toolCalls, runner>>

\* ------------------------------------------- the permission gate alone
\* The action texts ask_user_permission is called with.
GateActions ==
    { st.description : st \in DebugStep } \cup {ErrorAction, ContinueAction}

\* ask_user_permission(action) called on its own: the first prompt is out.
GateInit ==
    /\ handlers = 1
    /\ main_pc = ""
    /\ knowledge_base \in { kb \in KnowledgeBases : DOMAIN kb = {} }
    /\ issue_type = ""
    /\ pc = "Asking"
    /\ i = 0
    /\ action \in GateActions
    /\ response = <<>>
    /\ crew_tasks = <<>>
    /\ trace = << Prompt(0, action) >>
    /\ badInputs = 0
    /\ toolCalls = 0
    /\ runner = NoRunner

\* One turn of the while loop of lines 127-133 on the typed line.
GateAnswer(line) ==
    /\ pc = "Asking"
    /\ \/ Reprompt(line) /\ response' = line
       \/ /\ ask_user_permission(line) \in {"True", "False"}
          /\ response' = line
          /\ pc' = "Returned"
          /\ trace' = Append(trace, Returned(i, action, ask_user_permission(line)))
          /\ UNCHANGED <<handlers, main_pc, knowledge_base, issue_type, i, action, crew_tasks,
                         badInputs, toolCalls, runner>>

GateNext == \E line \in Inputs : GateAnswer(line)

GateSpec == GateInit /\ [][GateNext]_vars

\* --------------------------------------------------------- command runner
\* Commands the reasoning service can pass to terminal_tool while step st
\* is run: the tool's argument is a free string, so the step's command and
\* any other.
Commands(st) ==
    {st.command} \cup {"nosuchcmd", "/etc/hostname", "rm -rf /tmp/cache"}

\* Bytes that are not valid in the console encoding (text=True decodes).
Undecodable == "\\xff"
\* The k-th line a command writes.
Line(k) == <<"line 1\n", "line 2\n", "line 3\n", "line 4\n">>[k]

\* With shell=True the child is /bin/sh -c command: a command the shell
\* cannot find or may not execute still launches; the shell writes its
\* own message and exits with 127 or 126.
ShellMessage(c) ==
    CASE c = "nosuchcmd" -> "/bin/sh: 1: nosuchcmd: not found\n"
      [] c = "/etc/hostname" -> "/bin/sh: 1: /etc/hostname: Permission denied\n"
      [] OTHER -> ""

ShellReturnCode(c) ==
    CASE c = "nosuchcmd" -> 127
      [] c = "/etc/hostname" -> 126
      [] OTHER -> 0

\* What the launched child writes to stdout and stderr, both on one pipe.
ChildOutputs(c) ==
    IF ShellMessage(c) # "" THEN { <<ShellMessage(c)>> }
    ELSE IF c = "rm -rf /tmp/cache" THEN { << >> }
    ELSE { [k \in 1..n |-> Line(k)] : n \in 0..MaxLines }
         \cup { <<Undecodable>>, <<Line(1), Undecodable>> }

\* No except clause: e leaves execute_terminal_command.
Except_Propagates(r, e) == [r EXCEPT !.state = "raised", !.e = e]

\* except Exception as e: return f"Error executing command: {str(e)}"
\* applied to the frame r in which e was raised.
Except(r, e) ==
    [r EXCEPT !.state = "returned", !.e = e,
              !.result = <<"Error executing command: ", e>>]

\* execute_terminal_command(c) up to its first readline(): subprocess.Popen
\* either raises (fork or exec of the shell fails) or the child is launched.
execute_terminal_command(c) ==
    \/ runner' = Except(Runner("starting", c, <<>>, <<>>, FALSE, FALSE, 0,
                               <<>>, <<>>, "", <<>>), "OSError")
    \/ \E w \in ChildOutputs(c) :
         runner' = Runner("reading", c, w, <<>>, FALSE, FALSE,
                          ShellReturnCode(c), <<>>, <<>>, "", <<>>)

\* During kickoff the service calls terminal_tool with a command of its
\* choice.
ToolCall ==
    /\ pc = "Running"
    /\ runner.state # "reading"
    /\ toolCalls < MaxToolCalls
    /\ toolCalls' = toolCalls + 1
    /\ trace' = Append(trace, Event("exec", i, "terminal_command", ""))
    /\ \E c \in Commands(debug_steps[i]) : execute_terminal_command(c)
    /\ UNCHANGED <<handlers, main_pc, knowledge_base, issue_type, pc, i, action, response,
                   crew_tasks, badInputs>>

\* The child writes its next line.
ChildWrite ==
    /\ runner.state = "reading"
    /\ runner.toWrite # <<>>
    /\ runner' = [runner EXCEPT !.toWrite = Tail(@),
                                !.pipe = Append(@, Head(runner.toWrite))]
    /\ UNCHANGED <<handlers, main_pc, knowledge_base, issue_type, pc, i, action, response,
                   crew_tasks, trace, badInputs, toolCalls>>

\* The last write end of the pipe is closed.
ChildClose ==
    /\ runner.state = "reading"
    /\ runner.toWrite = <<>>
    /\ ~runner.closed
    /\ runner' = [runner EXCEPT !.closed = TRUE]
    /\ UNCHANGED <<handlers, main_pc, knowledge_base, issue_type, pc, i, action, response,
                   crew_tasks, trace, badInputs, toolCalls>>

\* The child exits, possibly with written lines still unread in the pipe.
ChildExit ==
    /\ runner.state = "reading"
    /\ runner.toWrite = <<>>
    /\ ~runner.exited
    /\ runner' = [runner EXCEPT !.exited = TRUE]
    /\ UNCHANGED <<handlers, main_pc, knowledge_base, issue_type, pc, i, action, response,
                   crew_tasks, trace, badInputs, toolCalls>>

\* The loop leaving as soon as poll() reports the exit, before it reads.
ReadLine_PollFirst ==
    /\ runner.state = "reading"
    /\ UNCHANGED <<handlers, main_pc, knowledge_base, issue_type, pc, i, action,
                   response, crew_tasks, trace, badInputs, toolCalls>>
    /\ IF runner.exited
       THEN runner' = [runner EXCEPT !.state = "returned",
                                     !.result = runner.output]
       ELSE /\ runner.pipe # <<>>
            /\ runner' = [runner EXCEPT !.pipe = Tail(@),
                                        !.echoed = Append(@, Head(runner.pipe)),
                                        !.output = Append(@, Head(runner.pipe))]

\* One iteration of the while loop of lines 41-47 when readline() has
\* something to return: a line, which is printed and appended (decoding it
\* may raise, which the except clause turns into the error string), or ''
\* at end of file, where poll() decides between break and another turn.
ReadLine ==
    /\ runner.state = "reading"
    /\ UNCHANGED <<handlers, main_pc, knowledge_base, issue_type, pc, i, action, response,
                   crew_tasks, trace, badInputs, toolCalls>>
    /\ IF runner.pipe # <<>>
       THEN LET line == Head(runner.pipe)
            IN  IF line = Undecodable
                THEN runner' = Except([runner EXCEPT !.pipe = Tail(@)],
                                      "UnicodeDecodeError")
                ELSE runner' = [runner EXCEPT !.pipe = Tail(@),
                                              !.echoed = Append(@, line),
                                              !.output = Append(@, line)]
       ELSE /\ runner.closed
            /\ runner.exited
            \* process.wait(); return "".join(output)
            /\ runner' = [runner EXCEPT !.state = "returned",
                                        !.result = runner.output]

\* ---------------------------------------------------- reasoning service
Results == {"analysis"}
ServiceErrors == {"Connection refused"}

\* Line 187 skipped after the last step.
KickoffReturns_NoGateAtEnd(r) ==
    /\ pc = "Running"
    /\ runner.state # "reading"
    /\ IF i = Len(debug_steps)
       THEN /\ pc' = "Complete"
            /\ action' = ""
            /\ trace' = trace \o << Event("kickoff_returned", i, "", r),
                                    LogInfo(i, "Analysis result: ", r) >>
       ELSE /\ pc' = "AwaitingContinuePermission"
            /\ action' = ContinueAction
            /\ trace' = trace \o << Event("kickoff_returned", i, "", r),
                                    LogInfo(i, "Analysis result: ", r),
                                    Prompt(i, ContinueAction) >>
    /\ UNCHANGED <<handlers, main_pc, knowledge_base, issue_type, i, response, crew_tasks,
                   badInputs, toolCalls>>
    /\ runner' = NoRunner

\* crew.kickoff() returns: line 181, then the gate of line 187.
KickoffReturns(r) ==
    /\ pc = "Running"
    /\ runner.state # "reading"
    /\ pc' = "AwaitingContinuePermission"
    /\ action' = ContinueAction
    /\ trace' = trace \o << Event("kickoff_returned", i, "", r),
                            LogInfo(i, "Analysis result: ", r),
                            Prompt(i, ContinueAction) >>
    /\ UNCHANGED <<handlers, main_pc, knowledge_base, issue_type, i, response, crew_tasks,
                   badInputs, toolCalls>>
    /\ runner' = NoRunner

\* No try statement around kickoff: the service's error leaves debug_issue.
KickoffRaises_Propagates(e) ==
    /\ pc = "Running"
    /\ runner.state # "reading"
    /\ pc' = "Failed"
    /\ action' = ""
    /\ trace' = trace \o << Event("kickoff_raised", i, "", e),
                            Event("raise", i, "Exception", e) >>
    /\ UNCHANGED <<handlers, main_pc, knowledge_base, issue_type, i, response, crew_tasks,
                   badInputs, toolCalls>>
    /\ runner' = NoRunner

\* crew.kickoff() raises an Exception: lines 182-184.
KickoffRaises(e) ==
    /\ pc = "Running"
    /\ runner.state # "reading"
    /\ pc' = "AwaitingErrorPermission"
    /\ action' = ErrorAction
    /\ trace' = trace \o << Event("kickoff_raised", i, "", e),
                            LogError(i, "Error during task execution: ", e),
                            Prompt(i, ErrorAction) >>
    /\ UNCHANGED <<handlers, main_pc, knowledge_base, issue_type, i, response, crew_tasks,
                   badInputs, toolCalls>>
    /\ runner' = NoRunner

\* Ctrl-C: KeyboardInterrupt is raised in the blocked call (input(), the
\* service call or readline()).  It is not an Exception, so neither the
\* except clause of line 50 nor that of line 182 catches it.
KeyboardInterrupt ==
    /\ pc \in GatePcs \cup {"Running"}
    /\ Raise("KeyboardInterrupt", "")
    /\ runner' = IF runner.state = "reading"
                 THEN [runner EXCEPT !.state = "interrupted"]
                 ELSE runner
    /\ UNCHANGED <<handlers, knowledge_base, issue_type, i, response, crew_tasks,
                   badInputs, toolCalls>>

Next ==
    \/ \E T \in IssueTypes : debug_issue(T)
    \/ \E line \in Inputs : StepGate(line)
    \/ \E line \in Inputs : ErrorGate(line)
    \/ \E line \in Inputs : ContinueGate(line)
    \/ InputEOF
    \/ ToolCall
    \/ ChildWrite
    \/ ChildClose
    \/ ChildExit
    \/ ReadLine
    \/ \E r \in Results : KickoffReturns(r)
    \/ \E e \in ServiceErrors : KickoffRaises(e)
    \/ KeyboardInterrupt

Spec == Init /\ [][Next]_vars

\* ------------------------------------ sessions that are left to finish
\* The lines the user types when giving an accepted token.
AcceptedInputs ==
    { line \in Inputs : Lower(line) \in { <<"y", "e", "s">>, <<"y">>, <<"n", "o">>, <<"n">> } }

\* The steps of sessions in which nobody cancels and the console stays open.
LiveNext ==
    \/ \E T \in IssueTypes : debug_issue(T)
    \/ \E line \in Inputs : StepGate(line)
    \/ \E line \in Inputs : ErrorGate(line)
    \/ \E line \in Inputs : ContinueGate(line)
    \/ ToolCall
    \/ ChildWrite
    \/ ChildClose
    \/ ChildExit
    \/ ReadLine
    \/ \E r \in Results : KickoffReturns(r)
    \/ \E e \in ServiceErrors : KickoffRaises(e)

\* The user eventually types an accepted token at each gate; a launched
\* command writes, closes its output and exits, and the runner keeps
\* reading; the service eventually returns or raises.
Fairness ==
    /\ WF_vars(\E line \in AcceptedInputs : StepGate(line))
    /\ WF_vars(\E line \in AcceptedInputs : ErrorGate(line))
    /\ WF_vars(\E line \in AcceptedInputs : ContinueGate(line))
    /\ WF_vars(ChildWrite)
    /\ WF_vars(ChildClose)
    /\ WF_vars(ChildExit)
    /\ WF_vars(ReadLine)
    /\ WF_vars(\/ \E r \in Results : KickoffReturns(r)
               \/ \E e \in ServiceErrors : KickoffRaises(e))

LiveSpec == Init /\ [][LiveNext]_vars /\ Fairness

\* ------------------------------------------------- the process as a whole
\* The knowledge bases a process loads: those with at most one step for
\* each issue type.
KnowledgeBaseFiles ==
    { kb \in KnowledgeBases : \A T \in DOMAIN kb : Len(kb[T]) <= 1 }

\* A process in which no AIDebugAgent has been constructed yet.
ProcessInit ==
    /\ handlers = 0
    /\ main_pc = ""
    /\ knowledge_base = << >>
    /\ issue_type = ""
    /\ pc = "Start"
    /\ i = 0
    /\ action = ""
    /\ response = <<>>
    /\ crew_tasks = <<>>
    /\ trace = <<>>
    /\ badInputs = 0
    /\ toolCalls = 0
    /\ runner = NoRunner

\* AIDebugAgent.__init__: the knowledge base is loaded, _setup_logging adds
\* one more StreamHandler to the process-wide logger 'AIDebugAgent', the
\* crew is created with an empty task list.  The new instance replaces the
\* one the process was using.
AIDebugAgent(kb) ==
    /\ pc \in {"Start", "Idle"}
    /\ handlers < MaxAgents
    /\ knowledge_base' = kb
    /\ handlers' = handlers + 1
    /\ crew_tasks' = <<>>
    /\ pc' = "Idle"
    /\ UNCHANGED <<issue_type, i, action, response, trace, badInputs,
                   toolCalls, runner>>

\* A caller other than main constructs an agent.
Construct ==
    /\ main_pc = ""
    /\ pc \in {"Start", "Idle"}
    /\ \E kb \in KnowledgeBaseFiles : AIDebugAgent(kb)
    /\ main_pc' = main_pc

\* example_usage.main, lines 5-9: the agent is constructed and the try
\* statement is entered; the call of line 11 is debug_issue.
main ==
    /\ main_pc = ""
    /\ pc \in {"Start", "Idle"}
    /\ \E kb \in KnowledgeBaseFiles : AIDebugAgent(kb)
    /\ main_pc' = "try"

\* debug_issue has returned to a caller other than main, which goes on
\* using the agent: the frame of the call is gone.
Return ==
    /\ pc \in {"Complete", "Aborted"}
    /\ main_pc = ""
    /\ pc' = "Idle"
    /\ issue_type' = ""
    /\ i' = 0
    /\ trace' = <<>>
    /\ UNCHANGED <<handlers, main_pc, knowledge_base, action, response,
                   crew_tasks, badInputs, toolCalls, runner>>

ProcessNext ==
    \/ Construct
    \/ main
    \/ Return
    \/ Next

ProcessSpec == ProcessInit /\ [][ProcessNext]_vars

\* ------------------------------------------------------------ properties
Positions == DOMAIN trace
Count(e) == Cardinality({ p \in Positions : trace[p].ev = e })
Started == issue_type # ""

\* C1: for every knowledge base and every issue type that is not one of its
\* keys, debug_issue logs exactly one error (the unknown-issue-type line),
\* asks no permission prompt, never invokes the orchestrator or the command
\* runner, runs no step and returns normally.
C1_UnknownIssueType ==
    (Started /\ issue_type \notin DOMAIN knowledge_base) =>
        /\ pc = "Complete"
        /\ Count("error") = 1
        /\ trace[1] = LogError(0, "Unknown issue type: ", issue_type)
        /\ Count("input") = 0
        /\ Count("kickoff") = 0
        /\ Count("exec") = 0
        /\ Count("raise") = 0
        /\ i = 0
        /\ crew_tasks = <<>>
        /\ runner = NoRunner

C1_Witness ==
    /\ Started
    /\ issue_type \notin DOMAIN knowledge_base
    /\ knowledge_base # << >>
    /\ pc = "Complete"

\* The lines equal to an accepted token when case is ignored.
YesTokens ==
    { <<a>> : a \in {"y", "Y"} }
    \cup { <<a, b, c>> : a \in {"y", "Y"}, b \in {"e", "E"}, c \in {"s", "S"} }
NoTokens ==
    { <<a>> : a \in {"n", "N"} }
    \cup { <<a, b>> : a \in {"n", "N"}, b \in {"o", "O"} }

\* What one turn of the gate does with the line it has just read.
C3_GateStep ==
    IF response' \in YesTokens
    THEN pc' = "Returned" /\ trace' = Append(trace, Returned(i, action, "True"))
    ELSE IF response' \in NoTokens
    THEN pc' = "Returned" /\ trace' = Append(trace, Returned(i, action, "False"))
    ELSE /\ pc' = "Asking"
         /\ action' = action
         /\ trace' = trace \o << Guidance(i), Prompt(i, action) >>

\* C3: whatever is typed, ask_user_permission prints the guidance and asks
\* again on each line that is not yes, y, no or n when case is ignored, and
\* does not return on it; it returns on the first accepted line, True
\* exactly for yes/y and False exactly for no/n.
C3_PermissionGate == [][pc = "Asking" => C3_GateStep]_vars

C3_Witness ==
    /\ pc = "Returned"
    /\ response = <<"Y", "e", "S">>
    /\ Len(trace) = 4
    /\ trace[2] = Guidance(0)
    /\ trace[3] = Prompt(0, action)
    /\ trace[4] = Returned(0, action, "True")

\* The step list of the running session (empty when there is none).
Steps ==
    IF Started /\ issue_type \in DOMAIN knowledge_base THEN debug_steps ELSE << >>

\* Position p holds the return of a step's permission gate (line 145).
IsStepGateReturn(p) ==
    /\ trace[p].ev = "return"
    /\ trace[p].msg \notin {ErrorAction, ContinueAction}

Kickoffs == { p \in Positions : trace[p].ev = "kickoff" }
LastKickoff == CHOOSE p \in Kickoffs : \A q \in Kickoffs : q <= p

\* Position p + 1 and p + 2 present step k: its log line and its prompt.
PresentsAt(p, k) ==
    /\ Len(trace) >= p + 2
    /\ trace[p + 1] = LogInfo(k, "Step: ", Steps[k].description)
    /\ trace[p + 2] = Prompt(k, Steps[k].description)

\* C2: when a step's permission gate is answered no, the orchestrator and
\* the command runner are not invoked for that step, the crew's task list is
\* not rebuilt for it, "skipped" is logged, neither "Continue to next step?"
\* nor "Continue despite error?" is asked for it, and what follows at once is
\* the next step's log line and gate, or the normal end after the last step.
C2_DeclinedStep ==
    /\ \A p \in Positions :
         (IsStepGateReturn(p) /\ trace[p].val = "False") =>
            LET k == trace[p].step
            IN  /\ Len(trace) > p
                /\ trace[p + 1] = LogInfo(k, "User chose to skip this step", "")
                /\ \A q \in Positions :
                      trace[q].step = k =>
                         /\ trace[q].ev \notin {"kickoff", "kickoff_returned",
                                                "kickoff_raised", "exec"}
                         /\ trace[q].ev = "input" =>
                               trace[q].val \notin {ErrorAction, ContinueAction}
                /\ IF k < Len(Steps)
                   THEN PresentsAt(p + 1, k + 1)
                   ELSE Len(trace) = p + 1 /\ pc = "Complete"
    /\ crew_tasks = IF Kickoffs = {} THEN << >>
                    ELSE LET st == Steps[trace[LastKickoff].step]
                         IN  << execute_task(st), analyze_task(st), remediate_task(st) >>

C2_Witness ==
    /\ Len(Steps) = 2
    /\ pc = "Complete"
    /\ \E p \in Positions : IsStepGateReturn(p) /\ trace[p].val = "True" /\ trace[p].step = 1
    /\ \E p \in Positions : IsStepGateReturn(p) /\ trace[p].val = "False" /\ trace[p].step = 2
    /\ Steps[1] # Steps[2]

\* A command that fails to start or to be read, in the claim's sense: Popen
\* or readline raised, or the shell could not find or execute the command.
FailureCase ==
    \/ runner.e # ""
    \/ runner.command \in {"nosuchcmd", "/etc/hostname"}

HasErrorMarker(result) ==
    result # << >> /\ result[1] = "Error executing command: "

\* C4 as stated: the runner never lets an exception out, and for a command
\* that fails to launch or to be read (unknown executable and permission
\* denied included) the returned string starts with "Error executing command: ".
C4_Original ==
    /\ runner.state # "raised"
    /\ (runner.state = "returned" /\ FailureCase) => HasErrorMarker(runner.result)

\* C4 amended: the runner never lets an Exception out and always returns a
\* string; the string is "Error executing command: " + str(e) exactly when
\* Popen or reading the output raised e; otherwise it is the joined output
\* lines, which for a command the shell cannot find or may not execute is the
\* shell's own message, without that prefix.
C4_RunnerNeverRaises ==
    /\ runner.state # "raised"
    /\ runner.state = "returned" =>
          /\ runner.e # "" => runner.result = <<"Error executing command: ", runner.e>>
          /\ runner.e = "" =>
                /\ runner.result = runner.output
                /\ ~HasErrorMarker(runner.result)
                /\ ShellMessage(runner.command) # "" =>
                      runner.result = << ShellMessage(runner.command) >>

C4_Witness ==
    /\ runner.state = "returned"
    /\ runner.command = "nosuchcmd"
    /\ runner.e = ""
    /\ runner.returncode = 127
    /\ runner.result = << "/bin/sh: 1: nosuchcmd: not found\n" >>

\* C5: when the orchestrator raised on step k and "Continue despite error?"
\* is answered no, the session is aborted there: nothing follows the answer,
\* no later step is logged, gated or submitted, and "Continue to next step?"
\* is not asked.
C5_ErrorDeclinedAborts ==
    \A p \in Positions :
        (trace[p].ev = "return" /\ trace[p].msg = ErrorAction /\ trace[p].val = "False") =>
            LET k == trace[p].step
            IN  /\ \E q \in 1..(p - 1) : trace[q].ev = "kickoff_raised" /\ trace[q].step = k
                /\ p = Len(trace)
                /\ pc = "Aborted"
                /\ \A q \in Positions : trace[q].step <= k
                /\ \A q \in Positions :
                      ~(trace[q].ev = "input" /\ trace[q].step = k
                        /\ trace[q].val = ContinueAction)

C5_Witness ==
    /\ pc = "Aborted"
    /\ trace # << >>
    /\ trace[Len(trace)] = Returned(1, ErrorAction, "False")
    /\ Len(Steps) = 2

\* C6: an error raised by the orchestrator does not leave debug_issue and is
\* neither retried nor turned into an abort by the controller: it is logged
\* as an error, the orchestrator is invoked once for the step, the next
\* event is the "Continue despite error?" prompt, and when that is answered
\* yes the "Continue to next step?" prompt follows before any further step.
C6_ServiceError ==
    /\ \A p \in Positions :
          trace[p].ev = "kickoff_raised" =>
             LET k == trace[p].step
             IN  /\ Len(trace) >= p + 2
                 /\ trace[p + 1] = LogError(k, "Error during task execution: ", trace[p].val)
                 /\ trace[p + 2] = Prompt(k, ErrorAction)
                 /\ Cardinality({ q \in Kickoffs : trace[q].step = k }) = 1
    /\ \A p \in Positions :
          (trace[p].ev = "return" /\ trace[p].msg = ErrorAction /\ trace[p].val = "True") =>
             /\ Len(trace) > p
             /\ trace[p + 1] = Prompt(trace[p].step, ContinueAction)
    /\ \A p \in Positions :
          trace[p].ev = "raise" =>
             /\ trace[p].msg \in {"EOFError", "KeyboardInterrupt"}
             /\ p > 1
             /\ trace[p - 1].ev # "kickoff_raised"
    /\ pc = "Failed" => trace[Len(trace)] = Event("raise", i, "EOFError", "")

C6_Witness ==
    \E p \in Positions :
        /\ trace[p].ev = "kickoff_raised"
        /\ Len(trace) >= p + 4
        /\ trace[p + 3] = Returned(trace[p].step, ErrorAction, "True")
        /\ trace[p + 4] = Prompt(trace[p].step, ContinueAction)

\* C7: after every orchestrator invocation that returned, the result is
\* logged and "Continue to next step?" is asked next, also after the last
\* step; answered no, "stopped by user" is logged, the session is aborted
\* and no later step is gated or run; answered yes, the next step in order
\* is presented, or the session completes when none remains.
C7_ContinueGate ==
    /\ \A p \in Positions :
          trace[p].ev = "kickoff_returned" =>
             LET k == trace[p].step
             IN  /\ Len(trace) >= p + 2
                 /\ trace[p + 1] = LogInfo(k, "Analysis result: ", trace[p].val)
                 /\ trace[p + 2] = Prompt(k, ContinueAction)
    /\ \A q \in Positions :
          (/\ trace[q].ev = "return"
           /\ trace[q].msg = ContinueAction
           /\ \E p \in 1..(q - 1) :
                 trace[p].ev = "kickoff_returned" /\ trace[p].step = trace[q].step) =>
             LET k == trace[q].step
             IN  IF trace[q].val = "False"
                 THEN /\ Len(trace) = q + 1
                      /\ trace[q + 1] = LogInfo(k, "User chose to stop debugging", "")
                      /\ pc = "Aborted"
                      /\ \A r \in Positions : trace[r].step <= k
                 ELSE IF k < Len(Steps)
                 THEN PresentsAt(q, k + 1)
                 ELSE Len(trace) = q /\ pc = "Complete"

C7_Witness ==
    /\ pc = "Complete"
    /\ Len(trace) > 3
    /\ trace[Len(trace)] = Returned(Len(Steps), ContinueAction, "True")
    /\ trace[Len(trace) - 3].ev = "kickoff_returned"

StepAnswered(k, v) ==
    \E p \in Positions : IsStepGateReturn(p) /\ trace[p].step = k /\ trace[p].val = v

\* C8: the number of orchestrator invocations is the number of step gates
\* answered yes; a session whose last step is declined ends complete, not
\* aborted; with two steps for "disk_full", step 1 confirmed and step 2
\* declined, there is exactly one invocation, "skipped" is logged for step 2
\* and the session completes.
C8_InvocationsMatchConfirmations ==
    /\ Count("kickoff") =
          Cardinality({ p \in Positions : IsStepGateReturn(p) /\ trace[p].val = "True" })
    /\ (Steps # << >> /\ StepAnswered(Len(Steps), "False")) => pc = "Complete"
    /\ (/\ issue_type = "disk_full"
        /\ Len(Steps) = 2
        /\ StepAnswered(1, "True")
        /\ StepAnswered(2, "False")) =>
          /\ Count("kickoff") = 1
          /\ trace[Len(trace)] = LogInfo(2, "User chose to skip this step", "")
          /\ pc = "Complete"

C8_Witness ==
    /\ issue_type = "disk_full"
    /\ Len(Steps) = 2
    /\ StepAnswered(1, "True")
    /\ StepAnswered(2, "False")
    /\ Count("kickoff") = 1
    /\ pc = "Complete"

\* C9 as stated: every command the runner launches is the command of the
\* knowledge-base step being run (the user is only ever asked to confirm
\* step descriptions), whatever the reasoning service does with its tool.
C9_OnlyKnowledgeBaseCommands ==
    (runner.state # "none" /\ runner.e # "OSError") =>
        /\ i \in 1..Len(Steps)
        /\ runner.command = Steps[i].command

Presentations == { p \in Positions : trace[p].ev = "info" /\ trace[p].msg = "Step: " }

\* C10: the steps are logged, gated and run in knowledge-base order: the
\* n-th step presented is step n of the list, each step is presented at most
\* once, step k + 1 is presented only right after step k was skipped or its
\* continue gate was answered yes, the orchestrator is invoked at most once
\* per step, and no event of an earlier step follows one of a later step.
C10_StepOrder ==
    /\ \A p \in Presentations :
          LET k == trace[p].step
          IN  /\ k = Cardinality({ q \in Presentations : q <= p })
              /\ k \in 1..Len(Steps)
              /\ PresentsAt(p - 1, k)
              /\ k > 1 =>
                    \/ trace[p - 1] = LogInfo(k - 1, "User chose to skip this step", "")
                    \/ trace[p - 1] = Returned(k - 1, ContinueAction, "True")
    /\ \A k \in 1..Len(Steps) : Cardinality({ q \in Kickoffs : trace[q].step = k }) <= 1
    /\ \A q \in Kickoffs :
          /\ q > 1
          /\ trace[q - 1] = Returned(trace[q].step, Steps[trace[q].step].description, "True")
    /\ \A p \in 1..(Len(trace) - 1) : trace[p].step <= trace[p + 1].step

C10_Witness ==
    /\ pc = "Complete"
    /\ Len(Steps) = 2
    /\ Steps[1] # Steps[2]
    /\ Cardinality(Presentations) = 2
    /\ Cardinality(Kickoffs) = 2

Raises == { p \in Positions : trace[p].ev = "raise" }

\* C11: in a session started by main, a KeyboardInterrupt raised at a gate,
\* during the orchestrator invocation or while a command's output is read
\* is not handled as a step error (no error log line and no "Continue
\* despite error?" prompt follows it: as many such prompts were first asked
\* as the orchestrator raised); it ends debug_issue, main's except
\* KeyboardInterrupt clause prints the interrupted-session line and nothing
\* follows; any other exception leaving debug_issue is printed by the except
\* Exception clause; no exception leaves main.
C11_InterruptReachesMain ==
    /\ main_pc \in {"", "try", "except KeyboardInterrupt", "except Exception"}
    /\ main_pc # "" =>
          /\ \A p \in Raises :
                /\ Len(trace) = p + 1
                /\ trace[p + 1].ev = "print"
                /\ IF trace[p].msg = "KeyboardInterrupt"
                   THEN /\ pc = "Interrupted"
                        /\ main_pc = "except KeyboardInterrupt"
                        /\ trace[p + 1].msg = "\nDebugging session interrupted by user"
                   ELSE /\ pc = "Failed"
                        /\ main_pc = "except Exception"
                        /\ trace[p + 1].msg = "An error occurred: "
          /\ Cardinality(Raises) <= 1
          /\ (pc \in {"Interrupted", "Failed"}) = (Raises # {})
          /\ (main_pc = "try") = (Raises = {})
          /\ Cardinality({ p \in Positions :
                              /\ trace[p] = Prompt(trace[p].step, ErrorAction)
                              /\ trace[p - 1].ev = "error" })
                = Count("kickoff_raised")
          /\ Count("error") = Count("kickoff_raised")
                + (IF Started /\ issue_type \notin DOMAIN knowledge_base THEN 1 ELSE 0)

\* interrupted while the output of a command is streamed, in a session of main
C11_Witness ==
    /\ main_pc = "except KeyboardInterrupt"
    /\ pc = "Interrupted"
    /\ runner.state = "interrupted"
    /\ runner.echoed # << >>
    /\ trace[Len(trace)].msg = "\nDebugging session interrupted by user"

\* C12: while the orchestrator is invoked for step i, self.crew.tasks holds
\* exactly three tasks, for the Executor, the Analyzer and the Remediator in
\* that order, each built from step i (its command, description, expected
\* output and remediation options) and none from a step submitted, failed
\* or skipped before.
C12_TaskBatch ==
    pc = "Running" =>
        LET st == Steps[i]
        IN  /\ Len(crew_tasks) = 3
            /\ [k \in 1..3 |-> crew_tasks[k].agent]
                  = <<"Executor", "Analyzer", "Remediator">>
            /\ crew_tasks[1].description.text = <<"Execute command: ", st.command>>
            /\ crew_tasks[1].description.json = << >>
            /\ crew_tasks[2].description.text[2] = st.description
            /\ crew_tasks[2].description.text[4] = st.expected_output
            /\ crew_tasks[2].description.json = JsonDumps(st.remediation)
            /\ crew_tasks[3].description.json = JsonDumps(st.remediation)
            /\ [k \in 1..3 |-> crew_tasks[k].expected_output]
                  = <<"Command execution output",
                      "Analysis of system state and identified issues",
                      "Implemented fix and its results">>
            /\ trace[LastKickoff].step = i

\* the second step is submitted after the first, a different one, was
C12_Witness ==
    /\ pc = "Running"
    /\ i = 2
    /\ Steps[1] # Steps[2]
    /\ Cardinality(Kickoffs) = 2
    /\ Count("kickoff_raised") = 1

Execs == { p \in Positions : trace[p].ev = "exec" }

\* C13: execute_terminal_command runs only inside crew.kickoff(), called by
\* the service through terminal_tool: a runner frame exists only while the
\* session is Running (or was interrupted there), never while it is Idle,
\* at a permission gate, Aborted or Complete; and every execution follows
\* the kickoff of its step, which follows the yes to that step's gate, with
\* the kickoff not yet returned or raised.
C13_RunnerOnlyInsideKickoff ==
    /\ runner.state \in {"none", "reading", "returned", "interrupted"}
    /\ runner.state = "reading" => pc = "Running"
    /\ runner.state = "returned" => pc \in {"Running", "Interrupted"}
    /\ runner.state = "interrupted" => pc = "Interrupted"
    /\ pc \in {"Idle", "Aborted", "Complete", "Failed"} \cup GatePcs => runner = NoRunner
    /\ Cardinality(Execs) = toolCalls
    /\ \A p \in Execs :
          \E q \in 2..(p - 1) :
             /\ trace[q] = Event("kickoff", trace[p].step, "", "")
             /\ trace[q - 1] = Returned(trace[p].step,
                                        Steps[trace[p].step].description, "True")
             /\ \A r \in (q + 1)..(p - 1) : trace[r].ev = "exec"

\* a command has run for step 2 after step 1 was declined
C13_Witness ==
    /\ pc = "Running"
    /\ i = 2
    /\ runner.state = "returned"
    /\ StepAnswered(1, "False")
    /\ Cardinality(Execs) = 1

\* The runner's command was launched (Popen did not raise).
Launched == runner.state # "none" /\ runner.e # "OSError"

GateCalls(k) ==
    { p \in Positions :
         /\ trace[p].ev = "input"
         /\ trace[p].step = k
         /\ p > 1 => trace[p - 1] # Guidance(k) }

\* C15: when the user eventually types an accepted token at every gate and
\* every orchestrator invocation eventually returns or raises, a session
\* that was started eventually is Aborted or Complete, and at no time has
\* ask_user_permission been called more than three times for one step.
C15_Terminates ==
    /\ Started ~> (pc \in {"Aborted", "Complete"})
    /\ [](\A k \in 1..Len(Steps) : Cardinality(GateCalls(k)) <= 3)

\* a finished session in which a step passed its three gates
C15_Witness ==
    /\ pc \in {"Aborted", "Complete"}
    /\ Len(Steps) = 2
    /\ Cardinality(GateCalls(1)) = 3
    /\ badInputs > 0
    /\ toolCalls > 0

\* C16: no step of a session changes self.knowledge_base: in every step of
\* the process other than the construction of an agent (which loads it),
\* through any number of debug_issue runs with any answers and any outcome
\* of the orchestrator, the mapping keeps its keys, its step lists in their
\* order and every field of every step.
C16_KnowledgeBaseUnchanged ==
    [][handlers' = handlers => knowledge_base' = knowledge_base]_vars

\* a second run on the same agent has ended, after a first that submitted
\* its step
C16_Witness ==
    /\ DOMAIN knowledge_base = IssueTypes
    /\ issue_type = "high_cpu_usage"
    /\ pc = "Complete"
    /\ StepAnswered(1, "False")
    /\ crew_tasks # << >>
    /\ crew_tasks[1] = execute_task(knowledge_base["disk_full"][1])

LogCalls == { p \in Positions : trace[p].ev \in {"info", "error"} }

\* C17 as stated: every log call of a session writes exactly one console
\* line, however many AIDebugAgent instances the process has constructed.
C17_OneLinePerLogCall ==
    \A p \in LogCalls : trace[p].lines = 1

TypeOK ==
    /\ pc \in {"Start", "Idle", "Running", "Complete", "Aborted", "Failed",
               "Interrupted"} \cup GatePcs
    /\ handlers \in 0..MaxAgents
    /\ main_pc \in {"", "try", "except KeyboardInterrupt", "except Exception"}
    /\ i \in 0..MaxSteps
    /\ badInputs \in 0..MaxBadInputs
    /\ toolCalls \in 0..MaxToolCalls

====
